---- MODULE Spec2Model ----
(***************************************************************************)
(* Model of the NeurIPS scraping pipeline (src/Scrapping.py) and of the    *)
(* annotation pass (src/Data annotation/annotate_dataset.py).              *)
(*                                                                         *)
(* Text that the code inspects character by character (titles, model       *)
(* answers) is a sequence of one-character strings; text the code only     *)
(* copies (authors, abstract, urls) is a plain string.                     *)
(***************************************************************************)
EXTENDS Integers, Sequences, FiniteSets, TLC

VARIABLES
    site,              \* the remote site: index pages and document pages
    csv,               \* CSV_FILE
    json,              \* JSON_FILE
    pdf,               \* the *.pdf files of DOWNLOAD_DIR
    pc,                \* position of the scraping process
    run,               \* number of the current process run
    year,              \* main: loop variable
    papers,            \* fetch_yearly_data: links of the index page
    idx,               \* fetch_yearly_data: position in papers
    processed_titles,  \* fetch_yearly_data: in-memory known-title set
    filename,          \* process_document: title / download_pdf: filename
    metadata,          \* process_document: the record being stored
    status,            \* per document reference: where it ended in this run
    retries,           \* fetch: retries / download_pdf: attempts
    attempt,           \* fetch, download_pdf: loop variable
    response,          \* fetch, download_pdf: outcome of the last request
    result,            \* fetch, download_pdf: how the call returned
    requests,          \* requests issued by the current call
    sleeps,            \* asyncio.sleep(5) taken by the current call
    apc,               \* position of the annotation process
    apapers,           \* annotate_dataset: papers
    aidx,              \* annotate_dataset: position in papers
    out,               \* OUTPUT_CSV_FILE
    reply,             \* annotate_with_gemini: what the model call did
    category,          \* annotate_dataset: what annotate_with_gemini returned
    tpc,               \* position of a call of clean_filename or of the extraction
    input,             \* the argument of that call
    output             \* what that call returned

storeVars == <<csv, json, pdf>>
loopVars  == <<run, year, papers, idx, processed_titles, filename, metadata, status>>
callVars  == <<retries, attempt, response, result, requests, sleeps>>
annVars   == <<apc, apapers, aidx, out, reply, category>>
textVars  == <<tpc, input, output>>
vars      == <<site, storeVars, pc, loopVars, callVars, annVars, textVars>>

(***************************************************************************)
(* Bounds of the model.                                                    *)
(***************************************************************************)
NumYears   == 2    \* years walked by main (the code walks 6)
MaxDocs    == 2    \* document references on the whole site
MaxRuns    == 2    \* process runs over the same site
MaxRetries == 3    \* largest retries / attempts argument tried
MaxRecords == 2    \* records of a structured store given to the annotation pass
MaxGarbage == 6    \* largest size of an unreadable structured store
MaxHead    == 2    \* freely chosen characters of a name given to clean_filename

(***************************************************************************)
(* Program constants.                                                      *)
(***************************************************************************)
FirstYear       == 2018
MaxNameLen      == 200
DefaultRetries  == 3
DefaultAttempts == 3

LastYear == FirstYear + NumYears - 1
Years    == FirstYear..LastYear

(***************************************************************************)
(* Text.                                                                   *)
(***************************************************************************)
Whitespace   == {" ", "\t", "\n"}
IllegalChars == {"/", "\\", ":", "*", "?", "\"", "<", ">", "|"}

Min(a, b) == IF a <= b THEN a ELSE b

\* str.strip(): the text without its leading and trailing whitespace
RECURSIVE lstrip(_)
lstrip(s) == IF s # <<>> /\ Head(s) \in Whitespace THEN lstrip(Tail(s)) ELSE s

RECURSIVE rstrip(_)
rstrip(s) ==
    IF s # <<>> /\ s[Len(s)] \in Whitespace
    THEN rstrip(SubSeq(s, 1, Len(s) - 1))
    ELSE s

strip(s) == rstrip(lstrip(s))

\* clean_filename that slices the name before it removes the characters
clean_filename_slices_first(name) ==
    SelectSeq(SubSeq(name, 1, Min(Len(name), MaxNameLen)),
              LAMBDA c : c \notin IllegalChars)

\* re.sub(r'[\/\\:*?"<>|]', '', name)[:200]
clean_filename(name) ==
    LET kept == SelectSeq(name, LAMBDA c : c \notin IllegalChars)
    IN  SubSeq(kept, 1, Min(Len(kept), MaxNameLen))

(***************************************************************************)
(* The remote site.  Every index page and document page answers the same   *)
(* way each time it is requested (no remote-side change between runs);     *)
(* asset downloads may fail differently on every attempt.                  *)
(*                                                                         *)
(* A document page: raises (the request times out or the connection        *)
(* fails), status (HTTP status of the answer), the <title> element, the    *)
(* two kinds of asset link, and the Authors and Abstract sections.         *)
(***************************************************************************)
Catalogue ==
    { [text |-> <<"a">>,
       page |-> [raises |-> FALSE, status |-> 200, has_title |-> TRUE,
                 title |-> <<"a">>, paper_pdf |-> "/a-Paper.pdf",
                 conference_pdf |-> "", has_authors |-> TRUE,
                 authors |-> "A. Author", has_abstract |-> TRUE,
                 abstract |-> "Abc"]],
      [text |-> <<"a", "?">>,
       page |-> [raises |-> FALSE, status |-> 200, has_title |-> TRUE,
                 title |-> <<"a", "?", "\n">>, paper_pdf |-> "",
                 conference_pdf |-> "/a2-Paper-Conference.pdf",
                 has_authors |-> FALSE, authors |-> "",
                 has_abstract |-> TRUE, abstract |-> "Abc"]],
      [text |-> <<"b">>,
       page |-> [raises |-> FALSE, status |-> 200, has_title |-> TRUE,
                 title |-> <<" ", "b">>, paper_pdf |-> "",
                 conference_pdf |-> "", has_authors |-> TRUE,
                 authors |-> "B. Author", has_abstract |-> FALSE,
                 abstract |-> ""]],
      [text |-> <<"c">>,
       page |-> [raises |-> TRUE, status |-> 0, has_title |-> FALSE,
                 title |-> <<>>, paper_pdf |-> "", conference_pdf |-> "",
                 has_authors |-> FALSE, authors |-> "",
                 has_abstract |-> FALSE, abstract |-> ""]],
      [text |-> <<"d">>,
       page |-> [raises |-> FALSE, status |-> 200, has_title |-> FALSE,
                 title |-> <<>>, paper_pdf |-> "/d-Paper.pdf",
                 conference_pdf |-> "", has_authors |-> TRUE,
                 authors |-> "D. Author", has_abstract |-> TRUE,
                 abstract |-> "Abc"]],
      [text |-> <<"e">>,
       page |-> [raises |-> FALSE, status |-> 404, has_title |-> TRUE,
                 title |-> <<"4", "0", "4">>, paper_pdf |-> "",
                 conference_pdf |-> "", has_authors |-> FALSE,
                 authors |-> "", has_abstract |-> FALSE,
                 abstract |-> ""]],
      [text |-> <<"?">>,
       page |-> [raises |-> FALSE, status |-> 200, has_title |-> TRUE,
                 title |-> <<" ", "?">>, paper_pdf |-> "/f-Paper.pdf",
                 conference_pdf |-> "", has_authors |-> FALSE,
                 authors |-> "", has_abstract |-> TRUE,
                 abstract |-> "Abc"]] }

\* the references of the site in page order, each with the year whose index
\* lists it, and the years whose index page cannot be retrieved
IsSorted(d) == \A i \in 1..(Len(d) - 1) : d[i].year <= d[i + 1].year

Sites ==
    { [docs |-> d, down |-> dn] :
        d \in { x \in UNION { [1..n -> [year : Years, ref : Catalogue]] :
                                n \in 0..MaxDocs } : IsSorted(x) },
        dn \in SUBSET Years }

SiteOk(s) == \A i \in 1..Len(s.docs) : s.docs[i].year \notin s.down

\* page.select("ul.paper-list li a[href*='-Abstract']"): the links of
\* year y's index page, each with its text and the url it points to
RECURSIVE IndexLinks(_, _, _)
IndexLinks(s, y, i) ==
    IF i > Len(s.docs) THEN <<>>
    ELSE (IF s.docs[i].year = y
          THEN <<[text |-> s.docs[i].ref.text, url |-> i]>>
          ELSE <<>>) \o IndexLinks(s, y, i + 1)

PageAt(url) == site.docs[url].ref.page

(***************************************************************************)
(* The stores.                                                             *)
(***************************************************************************)
NoMetadata ==
    [year |-> 0, title |-> <<>>, authors |-> "", abstract |-> "", pdf_url |-> ""]

HeaderLine  == [header |-> TRUE, row |-> NoMetadata]
DataLine(m) == [header |-> FALSE, row |-> m]

NoCsv  == [exists |-> FALSE, lines |-> <<>>]
NoJson == [exists |-> FALSE, valid |-> FALSE, data |-> <<>>, size |-> 0]

\* size of json.dump(data, file, indent=4), in units: what matters is that
\* it grows with every record and with the length of the record's text
RECURSIVE DumpSize(_)
DumpSize(data) ==
    IF data = <<>> THEN 2
    ELSE 1 + Len(data[1].title) + DumpSize(Tail(data))

\* store_csv writing the header on every append
store_csv_header_always(file, m) ==
    [exists |-> TRUE,
     lines  |-> file.lines \o <<HeaderLine>> \o <<DataLine(m)>>]

\* store_csv: append mode; the header is written iff the file did not exist
store_csv(file, m) ==
    [exists |-> TRUE,
     lines  |-> file.lines
                \o (IF ~file.exists THEN <<HeaderLine>> ELSE <<>>)
                \o <<DataLine(m)>>]

\* store_json opening the file with 'w' whatever it holds
store_json_overwrites(file, m) ==
    [exists |-> TRUE, valid |-> TRUE, data |-> <<m>>, size |-> DumpSize(<<m>>)]

\* store_json: an existing file is read ('r+'), a JSONDecodeError makes the
\* data [], the record is appended and the whole array is written from
\* offset 0; the file is not truncated, so what lay beyond the new text stays
store_json(file, m) ==
    IF file.exists
    THEN LET loaded == IF file.valid THEN file.data ELSE <<>>
             data   == Append(loaded, m)
         IN  IF DumpSize(data) >= file.size
             THEN [exists |-> TRUE, valid |-> TRUE, data |-> data,
                   size |-> DumpSize(data)]
             ELSE [exists |-> TRUE, valid |-> FALSE, data |-> <<>>,
                   size |-> file.size]
    ELSE [exists |-> TRUE, valid |-> TRUE, data |-> <<m>>,
          size |-> DumpSize(<<m>>)]

\* get_processed_titles that does not read the file
get_processed_titles_none(file) == {}

\* get_processed_titles: the titles of the structured store; the empty set
\* when the file is absent or unreadable
get_processed_titles(file) ==
    IF file.exists /\ file.valid
    THEN { file.data[i].title : i \in 1..Len(file.data) }
    ELSE {}

CsvTitles(file) ==
    { file.lines[i].row.title :
        i \in { k \in 1..Len(file.lines) : ~file.lines[k].header } }

\* os.path.exists taken to answer False whatever the directory holds
pdf_exists_never(files, name) == FALSE

\* os.path.exists(file_path) for f"{filename}.pdf"
pdf_exists(files, name) == \E f \in files : f.name = name

\* open(file_path, 'wb') and the chunks written to it
pdf_write(files, name, complete) ==
    { f \in files : f.name # name } \cup {[name |-> name, complete |-> complete]}

(***************************************************************************)
(* fetch and download_pdf: the retry loops.                                *)
(***************************************************************************)
FetchOutcomes    == {"200", "http_error", "timeout", "network_error"}
\* "stream_error": status 200, then an exception while the chunks are read
DownloadOutcomes == {"200", "http_error", "exception", "stream_error"}

IdleCall ==
    /\ retries = 0 /\ attempt = 0 /\ response = "none"
    /\ result = "none" /\ requests = 0 /\ sleeps = 0

Call(n) ==
    /\ retries' = n /\ attempt' = 0 /\ response' = "none"
    /\ result' = "running" /\ requests' = 0 /\ sleeps' = 0

Forget ==
    /\ retries' = 0 /\ attempt' = 0 /\ response' = "none"
    /\ result' = "none" /\ requests' = 0 /\ sleeps' = 0

\* for attempt in range(retries)
fetch_in_range(a, n) == a < n

\* the sleep taken after every failed attempt, the last one too
fetch_sleeps_always(a, n) == TRUE

\* if attempt < retries - 1: await asyncio.sleep(5)
fetch_sleeps(a, n) == a < n - 1

\* for attempt in range(attempts)
download_in_range(a, n) == a < n

\* if attempt < attempts - 1: await asyncio.sleep(5)
download_sleeps(a, n) == a < n - 1

\* one pass of fetch's loop body, the request answering with outcome o
FetchAttempt(o) ==
    /\ pc = "fetch"
    /\ fetch_in_range(attempt, retries)
    /\ requests' = requests + 1
    /\ response' = o
    /\ IF o = "200"
       THEN /\ result' = "html"
            /\ pc' = "fetch_ret"
            /\ UNCHANGED <<attempt, sleeps>>
       ELSE /\ attempt' = attempt + 1
            /\ sleeps' = IF fetch_sleeps(attempt, retries) THEN sleeps + 1 ELSE sleeps
            /\ UNCHANGED <<result, pc>>
    /\ UNCHANGED <<site, textVars, storeVars, loopVars, retries, annVars>>

\* the loop is exhausted: "Giving up", return None
FetchGiveUp ==
    /\ pc = "fetch"
    /\ ~fetch_in_range(attempt, retries)
    /\ result' = "None"
    /\ pc' = "fetch_ret"
    /\ UNCHANGED <<site, textVars, storeVars, loopVars, retries, attempt, response,
                   requests, sleeps, annVars>>

\* download_pdf up to the loop: nothing is requested when the file exists
DownloadStart ==
    /\ pc = "download"
    /\ IF pdf_exists(pdf, filename)
       THEN /\ result' = "exists"
            /\ pc' = "download_ret"
       ELSE /\ pc' = "download_loop"
            /\ UNCHANGED result
    /\ UNCHANGED <<site, textVars, storeVars, loopVars, retries, attempt, response,
                   requests, sleeps, annVars>>

\* one pass of download_pdf's loop body, the request answering with outcome o
DownloadAttempt(o) ==
    /\ pc = "download_loop"
    /\ download_in_range(attempt, retries)
    /\ requests' = requests + 1
    /\ response' = o
    /\ pdf' = CASE o = "200"          -> pdf_write(pdf, filename, TRUE)
                [] o = "stream_error" -> pdf_write(pdf, filename, FALSE)
                [] OTHER              -> pdf
    /\ IF o = "200"
       THEN /\ result' = "stored"
            /\ pc' = "download_ret"
            /\ UNCHANGED <<attempt, sleeps>>
       ELSE /\ attempt' = attempt + 1
            /\ sleeps' = IF download_sleeps(attempt, retries)
                         THEN sleeps + 1 ELSE sleeps
            /\ UNCHANGED <<result, pc>>
    /\ UNCHANGED <<site, textVars, csv, json, loopVars, retries, annVars>>

\* the loop is exhausted: "Failed to retrieve", return
DownloadGiveUp ==
    /\ pc = "download_loop"
    /\ ~download_in_range(attempt, retries)
    /\ result' = "failed"
    /\ pc' = "download_ret"
    /\ UNCHANGED <<site, textVars, storeVars, loopVars, retries, attempt, response,
                   requests, sleeps, annVars>>

(***************************************************************************)
(* The scraping process: main, fetch_yearly_data, process_document.        *)
(***************************************************************************)
\* how the index page of year y answers
IndexOutcomes(y) ==
    IF y \in site.down THEN FetchOutcomes \ {"200"} ELSE {"200"}

\* pdf_element and pdf_url of process_document: the first kind of link
\* wins; "" stands for None
pdf_url_of(page) ==
    IF page.paper_pdf # ""
    THEN "https://papers.nips.cc" \o page.paper_pdf
    ELSE IF page.conference_pdf # ""
         THEN "https://papers.nips.cc" \o page.conference_pdf
         ELSE ""

\* title = clean_filename(title_element.get_text().strip())
title_of(page) == clean_filename(strip(page.title))

\* the metadata dict without the sentinels of a missing section
metadata_of_no_sentinel(page, y, title) ==
    [year     |-> y,
     title    |-> title,
     authors  |-> page.authors,
     abstract |-> page.abstract,
     pdf_url  |-> IF pdf_url_of(page) # "" THEN pdf_url_of(page)
                  ELSE "Unavailable"]

\* the metadata dict of process_document
metadata_of(page, y, title) ==
    [year     |-> y,
     title    |-> title,
     authors  |-> IF page.has_authors THEN page.authors
                  ELSE "Authors not available",
     abstract |-> IF page.has_abstract THEN page.abstract
                  ELSE "Abstract not available",
     pdf_url  |-> IF pdf_url_of(page) # "" THEN pdf_url_of(page)
                  ELSE "Unavailable"]

NoStatus == [i \in 1..Len(site.docs) |-> "pending"]

\* main: the next year of range(2018, 2024), or the end of the run
Main ==
    /\ pc = "main"
    /\ IF year <= LastYear
       THEN /\ pc' = "fetch"
            /\ Call(DefaultRetries)
       ELSE /\ pc' = "done"
            /\ UNCHANGED callVars
    /\ UNCHANGED <<site, textVars, storeVars, loopVars, annVars>>

\* fetch of the index page of the year
FetchIndex == \E o \in IndexOutcomes(year) : FetchAttempt(o)

\* fetch_yearly_data parsing what fetch returned whatever it is
FetchYearlyData_without_return ==
    /\ pc = "fetch_ret"
    /\ papers' = IndexLinks(site, year, 1)
    /\ processed_titles' = get_processed_titles(json)
    /\ idx' = 1
    /\ pc' = "papers"
    /\ Forget
    /\ UNCHANGED <<site, textVars, storeVars, run, year, filename, metadata, status,
                   annVars>>

\* fetch_yearly_data once fetch has returned: give the year up, or read
\* the links and the known titles
FetchYearlyData ==
    /\ pc = "fetch_ret"
    /\ IF result = "None"
       THEN /\ year' = year + 1
            /\ pc' = "main"
            /\ UNCHANGED <<papers, idx, processed_titles>>
       ELSE /\ papers' = IndexLinks(site, year, 1)
            /\ processed_titles' = get_processed_titles(json)
            /\ idx' = 1
            /\ pc' = "papers"
            /\ UNCHANGED year
    /\ Forget
    /\ UNCHANGED <<site, textVars, storeVars, run, filename, metadata, status, annVars>>

\* fetch_yearly_data: one turn of "for paper in papers"
PaperLoop ==
    /\ pc = "papers"
    /\ IF idx > Len(papers)
       THEN /\ year' = year + 1
            /\ pc' = "main"
            /\ UNCHANGED <<idx, status>>
       ELSE IF papers[idx].text \in processed_titles
            THEN /\ status' = [status EXCEPT ![papers[idx].url] = "skipped"]
                 /\ idx' = idx + 1
                 /\ UNCHANGED <<year, pc>>
            ELSE /\ pc' = "process_document"
                 /\ UNCHANGED <<year, idx, status>>
    /\ UNCHANGED <<site, textVars, storeVars, run, papers, processed_titles, filename,
                   metadata, callVars, annVars>>

\* process_document taking the title of a page without a title element to
\* be the empty text instead of returning
ProcessDocument_without_title_check ==
    /\ pc = "process_document"
    /\ LET url  == papers[idx].url
           page == PageAt(url)
       IN  IF page.raises
           THEN /\ pc' = "crashed"
                /\ status' = [status EXCEPT ![url] = "failed"]
                /\ UNCHANGED <<idx, filename, callVars>>
           ELSE IF title_of(page) \in processed_titles
                THEN /\ status' = [status EXCEPT ![url] = "skipped"]
                     /\ idx' = idx + 1
                     /\ pc' = "papers"
                     /\ UNCHANGED <<filename, callVars>>
                ELSE /\ filename' = title_of(page)
                     /\ IF pdf_url_of(page) # ""
                        THEN /\ pc' = "download"
                             /\ Call(DefaultAttempts)
                        ELSE /\ pc' = "extract"
                             /\ UNCHANGED callVars
                     /\ UNCHANGED <<idx, status>>
    /\ UNCHANGED <<site, textVars, storeVars, run, year, papers, processed_titles,
                   metadata, annVars>>

\* process_document up to the asset download: the page is requested once,
\* with no retry and no handler, so a failing request ends the process
ProcessDocument ==
    /\ pc = "process_document"
    /\ LET url  == papers[idx].url
           page == PageAt(url)
       IN  IF page.raises
           THEN /\ pc' = "crashed"
                /\ status' = [status EXCEPT ![url] = "failed"]
                /\ UNCHANGED <<idx, filename, callVars>>
           ELSE IF ~page.has_title
                THEN /\ status' = [status EXCEPT ![url] = "missing"]
                     /\ idx' = idx + 1
                     /\ pc' = "papers"
                     /\ UNCHANGED <<filename, callVars>>
                ELSE IF title_of(page) \in processed_titles
                     THEN /\ status' = [status EXCEPT ![url] = "skipped"]
                          /\ idx' = idx + 1
                          /\ pc' = "papers"
                          /\ UNCHANGED <<filename, callVars>>
                     ELSE /\ filename' = title_of(page)
                          /\ IF pdf_url_of(page) # ""
                             THEN /\ pc' = "download"
                                  /\ Call(DefaultAttempts)
                             ELSE /\ pc' = "extract"
                                  /\ UNCHANGED callVars
                          /\ UNCHANGED <<idx, status>>
    /\ UNCHANGED <<site, textVars, storeVars, run, year, papers, processed_titles,
                   metadata, annVars>>

\* download_pdf of the document's asset
DownloadPdf == \E o \in DownloadOutcomes : DownloadAttempt(o)

\* process_document giving the document up when its download failed
Extract_skips_failed_download ==
    /\ pc \in {"download_ret", "extract"}
    /\ IF pc = "download_ret" /\ result = "failed"
       THEN /\ status' = [status EXCEPT ![papers[idx].url] = "failed"]
            /\ idx' = idx + 1
            /\ pc' = "papers"
            /\ UNCHANGED metadata
       ELSE /\ metadata' = metadata_of(PageAt(papers[idx].url), year, filename)
            /\ pc' = "store_csv"
            /\ UNCHANGED <<idx, status>>
    /\ Forget
    /\ UNCHANGED <<site, textVars, storeVars, run, year, papers, processed_titles,
                   filename, annVars>>

\* process_document after the download: authors, abstract, metadata
Extract ==
    /\ pc \in {"download_ret", "extract"}
    /\ metadata' = metadata_of(PageAt(papers[idx].url), year, filename)
    /\ pc' = "store_csv"
    /\ Forget
    /\ UNCHANGED <<site, textVars, storeVars, run, year, papers, idx, processed_titles,
                   filename, status, annVars>>

StoreCsv ==
    /\ pc = "store_csv"
    /\ csv' = store_csv(csv, metadata)
    /\ pc' = "store_json"
    /\ UNCHANGED <<site, textVars, json, pdf, loopVars, callVars, annVars>>

\* store_json, and process_document returns to the loop
StoreJson ==
    /\ pc = "store_json"
    /\ json' = store_json(json, metadata)
    /\ status' = [status EXCEPT ![papers[idx].url] = "stored"]
    /\ idx' = idx + 1
    /\ metadata' = NoMetadata
    /\ filename' = <<>>
    /\ pc' = "papers"
    /\ UNCHANGED <<site, textVars, csv, pdf, run, year, papers, processed_titles,
                   callVars, annVars>>

\* the process has ended (normally or by an exception) and is started again
Restart ==
    /\ pc \in {"done", "crashed"}
    /\ run < MaxRuns
    /\ run' = run + 1
    /\ year' = FirstYear
    /\ papers' = <<>>
    /\ idx' = 0
    /\ processed_titles' = {}
    /\ filename' = <<>>
    /\ metadata' = NoMetadata
    /\ status' = NoStatus
    /\ pc' = "main"
    /\ UNCHANGED <<site, textVars, storeVars, callVars, annVars>>

\* no call of clean_filename or of the extraction on its own
TextIdle == tpc = "idle" /\ input = <<>> /\ output = <<>>

AnnotateIdle ==
    /\ apc = "idle" /\ apapers = <<>> /\ aidx = 0 /\ out = NoCsv
    /\ reply = [raises |-> FALSE, has_choices |-> FALSE, n_choices |-> 0,
                has_message |-> FALSE, has_content |-> FALSE,
                content_is_str |-> FALSE, content |-> <<>>]
    /\ category = [raised |-> FALSE, value |-> <<>>]

InitProcess ==
    /\ pc = "main" /\ run = 1 /\ year = FirstYear
    /\ papers = <<>> /\ idx = 0 /\ processed_titles = {}
    /\ filename = <<>> /\ metadata = NoMetadata
    /\ status = NoStatus
    /\ IdleCall

\* the download directory has just been created
Init ==
    /\ site \in { s \in Sites : SiteOk(s) }
    /\ csv = NoCsv /\ json = NoJson /\ pdf = {}
    /\ InitProcess
    /\ AnnotateIdle
    /\ TextIdle

Next ==
    \/ Main
    \/ FetchIndex
    \/ FetchGiveUp
    \/ FetchYearlyData
    \/ PaperLoop
    \/ ProcessDocument
    \/ DownloadStart
    \/ DownloadPdf
    \/ DownloadGiveUp
    \/ Extract
    \/ StoreCsv
    \/ StoreJson
    \/ Restart

Spec == Init /\ [][Next]_vars

(***************************************************************************)
(* A run that finds an unreadable file at JSON_FILE.                       *)
(***************************************************************************)
InitCorrupt ==
    /\ site \in { s \in Sites : SiteOk(s) }
    /\ csv = NoCsv
    /\ \E g \in 0..MaxGarbage :
         json = [exists |-> TRUE, valid |-> FALSE, data |-> <<>>, size |-> g]
    /\ pdf = {}
    /\ InitProcess
    /\ AnnotateIdle
    /\ TextIdle

SpecCorrupt == InitCorrupt /\ [][Next]_vars

(***************************************************************************)
(* fetch and download_pdf on their own: any retries >= 1, any outcome of   *)
(* every attempt, any files already in the download directory.             *)
(***************************************************************************)
NoSite == [docs |-> <<>>, down |-> {}]

Filenames == {<<"a">>, <<"b">>}

InitFetch ==
    /\ site = NoSite
    /\ csv = NoCsv /\ json = NoJson
    /\ pdf \in SUBSET [name : Filenames, complete : {TRUE}]
    /\ pc \in {"fetch", "download"}
    /\ run = 1 /\ year = FirstYear
    /\ papers = <<>> /\ idx = 0 /\ processed_titles = {}
    /\ filename \in Filenames /\ metadata = NoMetadata
    /\ status = NoStatus
    /\ retries \in 1..MaxRetries
    /\ attempt = 0 /\ response = "none" /\ result = "running"
    /\ requests = 0 /\ sleeps = 0
    /\ AnnotateIdle
    /\ TextIdle

NextFetch ==
    \/ \E o \in FetchOutcomes : FetchAttempt(o)
    \/ FetchGiveUp
    \/ DownloadStart
    \/ \E o \in DownloadOutcomes : DownloadAttempt(o)
    \/ DownloadGiveUp

SpecFetch == InitFetch /\ [][NextFetch]_vars

(***************************************************************************)
(* The annotation pass: annotate_with_gemini and annotate_dataset.         *)
(***************************************************************************)
DeepLearning ==
    <<"D", "e", "e", "p", " ", "L", "e", "a", "r", "n", "i", "n", "g">>

ComputerVision ==
    <<"C", "o", "m", "p", "u", "t", "e", "r", " ", "V", "i", "s", "i", "o",
      "n">>

ReinforcementLearning ==
    <<"R", "e", "i", "n", "f", "o", "r", "c", "e", "m", "e", "n", "t", " ",
      "L", "e", "a", "r", "n", "i", "n", "g">>

NaturalLanguageProcessing ==
    <<"N", "a", "t", "u", "r", "a", "l", " ", "L", "a", "n", "g", "u", "a",
      "g", "e", " ", "P", "r", "o", "c", "e", "s", "s", "i", "n", "g">>

Optimization ==
    <<"O", "p", "t", "i", "m", "i", "z", "a", "t", "i", "o", "n">>

ANNOTATION_CATEGORIES ==
    {DeepLearning, ComputerVision, ReinforcementLearning,
     NaturalLanguageProcessing, Optimization}

Uncategorized ==
    <<"U", "n", "c", "a", "t", "e", "g", "o", "r", "i", "z", "e", "d">>

Robotics ==
    <<"R", "o", "b", "o", "t", "i", "c", "s">>

\* what openai.ChatCompletion.acreate did: raised, or returned a response
\* whose "choices" key, first choice, "message" key and "content" key are
\* there or not, the content being a string or null
Reply(raises, has_choices, n_choices, has_message, has_content, is_str, text) ==
    [raises |-> raises, has_choices |-> has_choices, n_choices |-> n_choices,
     has_message |-> has_message, has_content |-> has_content,
     content_is_str |-> is_str, content |-> text]

NoReply == Reply(FALSE, FALSE, 0, FALSE, FALSE, FALSE, <<>>)

Answer(text) == Reply(FALSE, TRUE, 1, TRUE, TRUE, TRUE, text)

Replies ==
    { Reply(TRUE, FALSE, 0, FALSE, FALSE, FALSE, <<>>),
      Reply(FALSE, FALSE, 0, FALSE, FALSE, FALSE, <<>>),
      Reply(FALSE, TRUE, 0, FALSE, FALSE, FALSE, <<>>),
      Reply(FALSE, TRUE, 1, FALSE, FALSE, FALSE, <<>>),
      Reply(FALSE, TRUE, 1, TRUE, FALSE, FALSE, <<>>),
      Reply(FALSE, TRUE, 1, TRUE, TRUE, FALSE, <<>>),
      Answer(DeepLearning),
      Answer(<<" ">> \o Optimization \o <<"\n">>),
      Answer(Robotics),
      Answer(<<>>) }

Returned(value) == [raised |-> FALSE, value |-> value]
Raised         == [raised |-> TRUE, value |-> <<>>]

\* response["choices"][0]["message"]["content"].strip(): the exception it
\* raises ("" for none) and its value
content_of(r) ==
    CASE r.raises             -> [exc |-> "APIError", value |-> <<>>]
      [] ~r.has_choices       -> [exc |-> "KeyError", value |-> <<>>]
      [] r.n_choices = 0      -> [exc |-> "IndexError", value |-> <<>>]
      [] ~r.has_message       -> [exc |-> "KeyError", value |-> <<>>]
      [] ~r.has_content       -> [exc |-> "KeyError", value |-> <<>>]
      [] ~r.content_is_str    -> [exc |-> "AttributeError", value |-> <<>>]
      [] OTHER                -> [exc |-> "", value |-> strip(r.content)]

\* annotate_with_gemini with a handler for the errors of the call alone
annotate_with_gemini_api_errors_only(r) ==
    LET c == content_of(r)
    IN  IF c.exc = "" THEN Returned(c.value)
        ELSE IF c.exc = "APIError" THEN Returned(Uncategorized)
        ELSE Raised

\* annotate_with_gemini: "except Exception" turns every failure of the
\* call and of the extraction into "Uncategorized"
annotate_with_gemini(r) ==
    LET c == content_of(r)
    IN  IF c.exc = "" THEN Returned(c.value) ELSE Returned(Uncategorized)

NoAnnotated ==
    [year |-> 0, title |-> <<>>, authors |-> "", abstract |-> "",
     pdf_url |-> "", category |-> <<>>]

\* paper["category"] = category
with_category(paper, c) ==
    [year |-> paper.year, title |-> paper.title, authors |-> paper.authors,
     abstract |-> paper.abstract, pdf_url |-> paper.pdf_url, category |-> c]

OutHeader == [header |-> TRUE, row |-> NoAnnotated]

\* a loop body that writes no row for a failed classification
writerow_unless_uncategorized(lines, paper, c) ==
    IF c = Uncategorized THEN lines
    ELSE Append(lines, [header |-> FALSE, row |-> with_category(paper, c)])

\* paper["category"] = category; writer.writerow(paper)
writerow(lines, paper, c) ==
    Append(lines, [header |-> FALSE, row |-> with_category(paper, c)])

\* annotate_dataset up to the loop: without a readable input file it
\* returns; otherwise the output file is opened ('w') and gets its header
AnnotateOpen ==
    /\ apc = "start"
    /\ IF json.exists /\ json.valid
       THEN /\ apapers' = json.data
            /\ out' = [exists |-> TRUE, lines |-> <<OutHeader>>]
            /\ aidx' = 1
            /\ apc' = "loop"
       ELSE /\ apc' = "done"
            /\ UNCHANGED <<apapers, out, aidx>>
    /\ UNCHANGED <<site, textVars, storeVars, pc, loopVars, callVars, reply, category>>

\* category = await annotate_with_gemini(title, abstract)
AnnotateClassify ==
    /\ apc = "loop"
    /\ aidx <= Len(apapers)
    /\ \E r \in Replies :
         /\ reply' = r
         /\ category' = annotate_with_gemini(r)
         /\ apc' = IF annotate_with_gemini(r).raised THEN "crashed"
                   ELSE "classified"
    /\ UNCHANGED <<site, textVars, storeVars, pc, loopVars, callVars, apapers, aidx, out>>

AnnotateWrite ==
    /\ apc = "classified"
    /\ out' = [out EXCEPT !.lines = writerow(@, apapers[aidx], category.value)]
    /\ aidx' = aidx + 1
    /\ apc' = "loop"
    /\ UNCHANGED <<site, textVars, storeVars, pc, loopVars, callVars, apapers, reply,
                   category>>

\* the loop is over: the output file is closed
AnnotateClose ==
    /\ apc = "loop"
    /\ aidx > Len(apapers)
    /\ apc' = "done"
    /\ UNCHANGED <<site, textVars, storeVars, pc, loopVars, callVars, apapers, aidx, out,
                   reply, category>>

\* the records the scraper can have stored
Records ==
    { metadata_of(r.page, FirstYear, title_of(r.page)) :
        r \in { c \in Catalogue : ~c.page.raises /\ c.page.has_title } }

RECURSIVE CsvOf(_)
CsvOf(data) ==
    IF data = <<>> THEN NoCsv ELSE store_csv(CsvOf(SubSeq(data, 1, Len(data) - 1)),
                                             data[Len(data)])

RECURSIVE JsonOf(_)
JsonOf(data) ==
    IF data = <<>> THEN NoJson ELSE store_json(JsonOf(SubSeq(data, 1, Len(data) - 1)),
                                               data[Len(data)])

\* the scraper has ended and left its stores: none, or some records; or
\* the structured store is unreadable
InitAnnotate ==
    /\ site = NoSite
    /\ \/ \E data \in UNION { [1..n -> Records] : n \in 0..MaxRecords } :
            /\ csv = CsvOf(data)
            /\ json = JsonOf(data)
       \/ /\ csv = NoCsv
          /\ json = [exists |-> TRUE, valid |-> FALSE, data |-> <<>>, size |-> 0]
    /\ pdf = {}
    /\ pc = "done" /\ run = 1 /\ year = LastYear + 1
    /\ papers = <<>> /\ idx = 0 /\ processed_titles = {}
    /\ filename = <<>> /\ metadata = NoMetadata
    /\ status = NoStatus
    /\ IdleCall
    /\ apc = "start" /\ apapers = <<>> /\ aidx = 0 /\ out = NoCsv
    /\ reply = NoReply /\ category = Returned(<<>>)
    /\ TextIdle

NextAnnotate ==
    \/ AnnotateOpen
    \/ AnnotateClassify
    \/ AnnotateWrite
    \/ AnnotateClose

SpecAnnotate == InitAnnotate /\ [][NextAnnotate]_vars

(***************************************************************************)
(* clean_filename on its own: names made of a few freely chosen            *)
(* characters and of a run of one character that is empty or about as      *)
(* long as the slice [:200], in both orders.                               *)
(***************************************************************************)
NameChars == {"a", " ", "/", "|"}
PadChars  == {"x", "*"}

Heads == UNION { [1..n -> NameChars] : n \in 0..MaxHead }

Pads ==
    { [i \in 1..k |-> c] :
        c \in PadChars, k \in {0} \cup ((MaxNameLen - 1)..(MaxNameLen + 1)) }

Names == { h \o p : h \in Heads, p \in Pads } \cup { p \o h : h \in Heads, p \in Pads }

\* nothing runs but the call under study
Quiescent ==
    /\ site = NoSite
    /\ csv = NoCsv /\ json = NoJson /\ pdf = {}
    /\ pc = "done" /\ run = 1 /\ year = LastYear + 1
    /\ papers = <<>> /\ idx = 0 /\ processed_titles = {}
    /\ filename = <<>> /\ metadata = NoMetadata
    /\ status = NoStatus
    /\ IdleCall
    /\ AnnotateIdle

InitClean ==
    /\ Quiescent
    /\ tpc = "clean"
    /\ input \in Names
    /\ output = <<>>

CleanFilename ==
    /\ tpc = "clean"
    /\ output' = clean_filename(input)
    /\ tpc' = "returned"
    /\ UNCHANGED <<site, storeVars, pc, loopVars, callVars, annVars, input>>

NextClean == CleanFilename

SpecClean == InitClean /\ [][NextClean]_vars

(***************************************************************************)
(* The extraction of process_document on its own (lines 61-96): one        *)
(* document page with a title element, one year, and the metadata dict     *)
(* built from them.                                                        *)
(***************************************************************************)
PaperX == <<"P", "a", "p", "e", "r", " ", "X">>

PageTitles == { PaperX, <<" ">> \o PaperX \o <<"\n">>, <<"P", ":", " ", "X", "?">> }

Pages ==
    { [raises |-> FALSE, status |-> 200, has_title |-> TRUE, title |-> t,
       paper_pdf |-> p, conference_pdf |-> c,
       has_authors |-> a, authors |-> IF a THEN "A. Author" ELSE "",
       has_abstract |-> b, abstract |-> IF b THEN "Abc" ELSE ""] :
        t \in PageTitles, p \in {"", "/x-Paper.pdf"},
        c \in {"", "/x-Paper-Conference.pdf"}, a \in BOOLEAN, b \in BOOLEAN }

InitExtract ==
    /\ Quiescent
    /\ tpc = "extract"
    /\ input \in [page : Pages, year : Years]
    /\ output = <<>>

ExtractRecord ==
    /\ tpc = "extract"
    /\ input.page.has_title
    /\ output' = metadata_of(input.page, input.year, title_of(input.page))
    /\ tpc' = "extracted"
    /\ UNCHANGED <<site, storeVars, pc, loopVars, callVars, annVars, input>>

NextExtract == ExtractRecord

SpecExtract == InitExtract /\ [][NextExtract]_vars

(***************************************************************************)
(* Properties.                                                             *)
(***************************************************************************)
IsPrefix(s, t) == Len(s) <= Len(t) /\ SubSeq(t, 1, Len(s)) = s

Count(s, t) == Cardinality({ i \in 1..Len(s) : s[i] = t })

JsonTitleSeq == [i \in 1..Len(json.data) |-> json.data[i].title]

CsvTitleSeq ==
    LET rows == SelectSeq(csv.lines, LAMBDA l : ~l.header)
    IN  [i \in 1..Len(rows) |-> rows[i].row.title]

RunEnded == pc \in {"done", "crashed"}

\* C1: once the first run has ended, a further run over the same site
\* changes nothing in the structured store: no record is appended, so the
\* set of titles and the number of records of each title stay as they were.
C1_IdempotentRerun == [][run > 1 => json' = json]_vars

C1_Witness ==
    /\ run = 2 /\ pc = "done"
    /\ Len(json.data) >= 1
    /\ \E i \in 1..Len(site.docs) : status[i] = "skipped"

\* two references of the same year whose pages carry titles that clean to
\* the same title
SameTitleRefs(i, j) ==
    /\ i < j
    /\ site.docs[i].year = site.docs[j].year
    /\ ~site.docs[i].ref.page.raises /\ site.docs[i].ref.page.has_title
    /\ ~site.docs[j].ref.page.raises /\ site.docs[j].ref.page.has_title
    /\ title_of(site.docs[i].ref.page) = title_of(site.docs[j].ref.page)

\* C2: when a run from empty stores has processed its years, a title that
\* two references of one year resolve to is held by exactly one record of
\* the structured store and by exactly one row of the tabular store.
C2_DedupWithinRun ==
    (run = 1 /\ pc = "done") =>
        \A i, j \in 1..Len(site.docs) :
            SameTitleRefs(i, j) =>
                /\ Count(JsonTitleSeq, title_of(site.docs[i].ref.page)) = 1
                /\ Count(CsvTitleSeq, title_of(site.docs[i].ref.page)) = 1

\* C3: a call of fetch or download_pdf never issues more than `retries`
\* requests; one that returns with its last request failed returns
\* None / failure; and a call that gave up has issued exactly `retries`
\* requests and slept exactly retries - 1 times.
C3_RetryBound ==
    /\ requests <= retries
    /\ (pc = "fetch_ret" /\ response # "200") => result = "None"
    /\ (pc = "download_ret" /\ response \notin {"200", "none"}) => result = "failed"
    /\ (pc = "fetch_ret" /\ result = "None") =>
           (requests = retries /\ sleeps = retries - 1)
    /\ (pc = "download_ret" /\ result = "failed") =>
           (requests = retries /\ sleeps = retries - 1)

C3_Witness ==
    /\ pc = "fetch_ret" /\ result = "None"
    /\ retries = DefaultRetries /\ response = "timeout"

\* C4: outside download_pdf's loop every file of the download directory
\* is the product of a download that completed.
C4_NoPartialAssets ==
    pc # "download_loop" => \A f \in pdf : f.complete

\* C5: a run never ends before it has walked every year, and when it has
\* ended every reference of the site is Stored, Skipped or Failed.
C5_FailuresNonFatal ==
    RunEnded =>
        /\ year > LastYear
        /\ \A i \in 1..Len(site.docs) :
               status[i] \in {"stored", "skipped", "missing", "failed"}

\* C6: every step keeps the records of the structured store, unchanged and
\* in place, so their number never decreases; store_json adds the new
\* record at the end.
C6_AppendOnly ==
    [][ /\ IsPrefix(json.data, json'.data)
        /\ Len(json'.data) >= Len(json.data)
        /\ (pc = "store_json" => json'.data = Append(json.data, metadata))
      ]_vars

C6_Witness ==
    /\ pc = "papers"
    /\ Len(json.data) = 2
    /\ json.data[1] # json.data[2]

\* C7: whenever no append is in progress the tabular store and the
\* structured store hold the same set of titles.
C7_DualStoreConsistent ==
    pc # "store_json" => CsvTitles(csv) = get_processed_titles(json)

\* the model call threw, or its output lacks choices, message or content
Malformed(r) ==
    \/ r.raises
    \/ ~r.has_choices \/ r.n_choices = 0
    \/ ~r.has_message
    \/ ~r.has_content \/ ~r.content_is_str

\* C8: the annotation pass never ends by an exception of the
\* classification, and a classification whose model call threw or returned
\* malformed output has returned exactly "Uncategorized".
C8_ClassifierFallback ==
    /\ apc # "crashed"
    /\ (apc = "classified" /\ Malformed(reply)) =>
           category = Returned(Uncategorized)

C8_Witness ==
    /\ apc = "classified"
    /\ ~reply.raises /\ reply.has_choices /\ reply.n_choices = 1
    /\ ~reply.has_message
    /\ category.value = Uncategorized

OutRows == SelectSeq(out.lines, LAMBDA l : ~l.header)

\* C9: every category in the annotated output is one of
\* ANNOTATION_CATEGORIES or is "Uncategorized".
C9_ClosedLabelSet ==
    \A i \in 1..Len(OutRows) :
        OutRows[i].row.category \in ANNOTATION_CATEGORIES \cup {Uncategorized}

without_category(row) ==
    [year |-> row.year, title |-> row.title, authors |-> row.authors,
     abstract |-> row.abstract, pdf_url |-> row.pdf_url]

\* C10: the annotation pass never changes the structured store, and when
\* it has ended on a readable store of n records the output holds the
\* header and then exactly n rows, the i-th being the i-th record with its
\* category.
C10_AnnotationComplete ==
    /\ [](/\ apc # "crashed"
          /\ (apc = "done" /\ json.exists /\ json.valid) =>
                 /\ out.exists
                 /\ Len(out.lines) = Len(json.data) + 1
                 /\ out.lines[1] = OutHeader
                 /\ \A i \in 1..Len(json.data) :
                        /\ ~out.lines[i + 1].header
                        /\ without_category(out.lines[i + 1].row) = json.data[i])
    /\ [][json' = json]_vars

C10_Witness ==
    /\ apc = "done"
    /\ Len(json.data) = 2
    /\ Len(out.lines) = 3
    /\ out.lines[2].row.category = Uncategorized
    /\ out.lines[3].row.category = DeepLearning

\* the characters of a name that no filename forbids, in order
RECURSIVE LegalChars(_)
LegalChars(s) ==
    IF s = <<>> THEN <<>>
    ELSE IF Len(s) = 1 THEN (IF s[1] \in IllegalChars THEN <<>> ELSE s)
    ELSE LET h == Len(s) \div 2
         IN  LegalChars(SubSeq(s, 1, h)) \o LegalChars(SubSeq(s, h + 1, Len(s)))

\* C11: what clean_filename returns holds none of / \ : * ? " < > |, is at
\* most 200 long, and is the other characters of the name, in order, as
\* far as the first 200 of them.
C11_FilenameSafety ==
    tpc = "returned" =>
        /\ \A i \in 1..Len(output) : output[i] \notin IllegalChars
        /\ Len(output) <= MaxNameLen
        /\ Len(output) = Min(Len(LegalChars(input)), MaxNameLen)
        /\ IsPrefix(output, LegalChars(input))

C11_Witness ==
    /\ tpc = "returned"
    /\ Len(input) > MaxNameLen
    /\ \E i \in 1..Len(input) : input[i] \in IllegalChars
    /\ \E i \in 1..Len(input) : input[i] \notin IllegalChars
    /\ Len(output) = MaxNameLen
    /\ Len(LegalChars(input)) > MaxNameLen

\* the page of the example: title "Paper X", no Authors heading, an
\* abstract section with the text "Abc"
ExamplePage ==
    /\ input.page.title = PaperX
    /\ ~input.page.has_authors
    /\ input.page.has_abstract /\ input.page.abstract = "Abc"

\* C12 as stated: the example page yields the title "PaperX", the authors
\* sentinel and the abstract "Abc".
C12_ExtractionAsStated ==
    (tpc = "extracted" /\ ExamplePage) =>
        /\ output.title = <<"P", "a", "p", "e", "r", "X">>
        /\ output.authors = "Authors not available"
        /\ output.abstract = "Abc"

\* C12, amended: the example page yields the title "Paper X" (the space is
\* kept), the authors sentinel and the abstract "Abc"; in general the title
\* is the stripped title without the forbidden characters, an absent
\* Authors or Abstract section yields its sentinel and a present one is
\* carried, as are the year and the link found.
C12_ExtractionComplete ==
    tpc = "extracted" =>
        /\ ExamplePage =>
              /\ output.title = PaperX
              /\ output.authors = "Authors not available"
              /\ output.abstract = "Abc"
        /\ output.title = LegalChars(strip(input.page.title))
        /\ output.year = input.year
        /\ output.authors = IF input.page.has_authors THEN input.page.authors
                            ELSE "Authors not available"
        /\ output.abstract = IF input.page.has_abstract THEN input.page.abstract
                             ELSE "Abstract not available"
        /\ (output.pdf_url = "Unavailable") <=>
              (input.page.paper_pdf = "" /\ input.page.conference_pdf = "")

C12_Witness ==
    /\ tpc = "extracted"
    /\ ExamplePage
    /\ output.title = PaperX
    /\ output.authors = "Authors not available"

\* C13: every record of the structured store and every asset file has a
\* non-empty title, and a page whose title is empty after cleaning is never
\* stored.
C13_NonEmptyTitle ==
    /\ \A i \in 1..Len(json.data) : json.data[i].title # <<>>
    /\ \A f \in pdf : f.name # <<>>
    /\ \A i \in 1..Len(site.docs) :
          (PageAt(i).has_title /\ title_of(PageAt(i)) = <<>>) => status[i] # "stored"

\* C14: a document page answered with a status other than 200 is skipped,
\* so neither store holds a record built from its body.
C14_Non200Skipped ==
    \A i \in 1..Len(site.docs) :
        (~PageAt(i).raises /\ PageAt(i).status # 200) =>
            /\ status[i] # "stored"
            /\ \A k \in 1..Len(json.data) :
                  json.data[k] # metadata_of(PageAt(i), site.docs[i].year,
                                             title_of(PageAt(i)))
            /\ \A k \in 1..Len(csv.lines) :
                  csv.lines[k] # DataLine(metadata_of(PageAt(i), site.docs[i].year,
                                                      title_of(PageAt(i))))

\* the link of the page of the document in hand, "" when it has none
CurrentLink == pdf_url_of(PageAt(papers[idx].url))

\* C15: a failed asset download does not stop the extraction: the record is
\* built with the link that was found, and is appended to the tabular and to
\* the structured store; a record says "Unavailable" exactly when the page
\* has no link.
C15_DownloadFailureNonFatal ==
    /\ [](pc \in {"store_csv", "store_json"} =>
            /\ metadata.title = filename
            /\ (metadata.pdf_url = "Unavailable") <=> (CurrentLink = "")
            /\ CurrentLink # "" => metadata.pdf_url = CurrentLink)
    /\ [][/\ (pc = "download_ret" /\ result = "failed") =>
                /\ pc' = "store_csv"
                /\ metadata'.pdf_url = CurrentLink
                /\ UNCHANGED <<idx, filename>>
          /\ pc = "store_csv" =>
                /\ pc' = "store_json"
                /\ csv'.lines[Len(csv'.lines)] = DataLine(metadata)
                /\ Len(csv'.lines) > Len(csv.lines)
                /\ UNCHANGED <<idx, metadata>>
          /\ pc = "store_json" =>
                /\ json'.valid
                /\ json'.data = Append(json.data, metadata)
                /\ status'[papers[idx].url] = "stored"]_vars

C15_Witness ==
    \E i \in 1..Len(site.docs) :
        /\ status[i] = "stored"
        /\ pdf_url_of(PageAt(i)) # ""
        /\ ~pdf_exists(pdf, title_of(PageAt(i)))
        /\ \E k \in 1..Len(json.data) :
              /\ json.data[k].title = title_of(PageAt(i))
              /\ json.data[k].pdf_url = pdf_url_of(PageAt(i))
        /\ \E k \in 1..Len(csv.lines) :
              /\ ~csv.lines[k].header
              /\ csv.lines[k].row.title = title_of(PageAt(i))
              /\ csv.lines[k].row.pdf_url = pdf_url_of(PageAt(i))

\* the page of the document in hand
CurrentPage == PageAt(papers[idx].url)

\* C16: a document page without a title element is skipped: the step that
\* reads it appends nothing, asks for no asset and moves to the next
\* reference; no download and no store step ever runs for such a page.
C16_MissingTitleSkipped ==
    /\ [](pc \in {"download", "download_loop", "download_ret", "extract",
                  "store_csv", "store_json"} => CurrentPage.has_title)
    /\ [](\A i \in 1..Len(site.docs) :
              (~PageAt(i).raises /\ ~PageAt(i).has_title) => status[i] # "stored")
    /\ [][(pc = "process_document" /\ ~CurrentPage.raises /\ ~CurrentPage.has_title) =>
              /\ pc' = "papers"
              /\ idx' = idx + 1
              /\ status'[papers[idx].url] = "missing"
              /\ UNCHANGED <<storeVars, requests, papers, year>>]_vars

C16_Witness ==
    \E i, j \in 1..Len(site.docs) :
        /\ i < j
        /\ ~PageAt(i).has_title /\ pdf_url_of(PageAt(i)) # ""
        /\ status[i] = "missing"
        /\ status[j] = "stored"
        /\ Len(json.data) = 1
        /\ pdf = {}

\* C17: the tabular store, absent at first, holds exactly one header row,
\* the first one; every append keeps the rows there are and adds the data
\* row at the end, with a header before it iff the store did not exist.
C17_HeaderOnce ==
    /\ [](IF csv.exists
          THEN /\ Len(csv.lines) >= 2
               /\ csv.lines[1] = HeaderLine
               /\ \A k \in 2..Len(csv.lines) : ~csv.lines[k].header
          ELSE csv.lines = <<>>)
    /\ [][pc = "store_csv" =>
              /\ IsPrefix(csv.lines, csv'.lines)
              /\ csv'.lines[Len(csv'.lines)] = DataLine(metadata)
              /\ Len(csv'.lines) = Len(csv.lines) + (IF csv.exists THEN 1 ELSE 2)
              /\ ~csv.exists => csv'.lines[1].header]_vars
    /\ [][pc # "store_csv" => csv' = csv]_vars

C17_Witness ==
    /\ csv.exists
    /\ Len(csv.lines) = 3
    /\ csv.lines[1].header /\ ~csv.lines[2].header /\ ~csv.lines[3].header
    /\ csv.lines[2] # csv.lines[3]

\* the records of the references stored so far, in the order of the site:
\* years ascending, and within a year the order of the index page
RECURSIVE StoredInOrder(_)
StoredInOrder(i) ==
    IF i > Len(site.docs) THEN <<>>
    ELSE (IF status[i] = "stored"
          THEN <<metadata_of(PageAt(i), site.docs[i].year, title_of(PageAt(i)))>>
          ELSE <<>>)
         \o StoredInOrder(i + 1)

\* the order of the records of a first run
C18_Order ==
    run = 1 =>
        /\ json.data = StoredInOrder(1)
        /\ \A k \in 1..(Len(json.data) - 1) :
              json.data[k].year <= json.data[k + 1].year

\* C18: in a run from an empty store the records are in the structured
\* store in ascending order of year and, within a year, in the order of the
\* index page; and no document is left out because another one failed.
C18_ProcessingOrder ==
    /\ C18_Order
    /\ RunEnded =>
          \A i, j \in 1..Len(site.docs) :
              (i < j /\ status[i] = "failed") => status[j] # "pending"

\* C19: when the index page of a year is not retrieved after all the
\* attempts, fetch_yearly_data gives the year up: no document of the year
\* is requested, no store changes while the year is walked, and the run
\* goes on to the next year.
C19_IndexFailSoft ==
    /\ [](year \in site.down =>
            /\ pc \in {"main", "fetch", "fetch_ret"}
            /\ pc = "fetch_ret" => (result = "None" /\ requests = DefaultRetries))
    /\ [][(pc = "fetch_ret" /\ result = "None") =>
              /\ year' = year + 1
              /\ pc' = "main"
              /\ UNCHANGED <<storeVars, papers, idx, status, run>>]_vars
    /\ [][(year \in site.down) => UNCHANGED storeVars]_vars

C19_Witness ==
    /\ run = 1
    /\ FirstYear \in site.down
    /\ year > FirstYear
    /\ csv.exists /\ Len(json.data) >= 1
    /\ \E i \in 1..Len(site.docs) : status[i] = "stored"

\* an asset file of the title in hand is in the download directory
FilePresent == \E f \in pdf : f.name = filename

\* C20: an asset is requested for a title only when the structured store
\* held no record of that title when the year was begun, whatever became of
\* an earlier download; download_pdf asks for nothing and writes nothing when
\* the file is there, and nothing else writes a file.
C20_NoAssetRetry ==
    /\ [](pc \in {"download", "download_loop"} =>
            \A k \in 1..Len(json.data) :
                json.data[k].title = filename =>
                    \E i \in 1..Len(site.docs) :
                        /\ status[i] = "stored"
                        /\ site.docs[i].year = year
                        /\ json.data[k] = metadata_of(PageAt(i), year, filename))
    /\ [][(pc = "download" /\ FilePresent) =>
              /\ pc' = "download_ret"
              /\ UNCHANGED <<pdf, requests>>]_vars
    /\ [][(pc # "download_loop") => UNCHANGED pdf]_vars

C20_Witness ==
    /\ run = 2 /\ pc = "done"
    /\ \E f \in pdf :
          /\ ~f.complete
          /\ \E k \in 1..Len(json.data) : json.data[k].title = f.name
    /\ \E i \in 1..Len(site.docs) :
          /\ status[i] = "skipped"
          /\ pdf_url_of(PageAt(i)) # ""
          /\ \E f \in pdf : f.name = title_of(PageAt(i)) /\ ~f.complete

====
